---------------------------- MODULE Spec2Model ----------------------------
(***************************************************************************)
(* A model of Fetcher.dispatch (the retry / backoff loop of one logical    *)
(* fetch) and of the transport handle Fetcher.makeRequest, from            *)
(* src/src/index.ts.                                                       *)
(*                                                                         *)
(* Strings are modelled by what the code does with them:                   *)
(*  - an error description is the set of the text fragments it contains;   *)
(*    a regular expression test is "some alternative of the pattern is     *)
(*    among the fragments" (case folded when the pattern has the i flag);  *)
(*  - a URL is a sequence of segments, literal text or a {placeholder};    *)
(*    resolving magic variables turns each placeholder into a value        *)
(*    computed from the clock.                                             *)
(***************************************************************************)
EXTENDS Integers, Sequences, FiniteSets, TLC

(* ------------------------------ bounds --------------------------------- *)

\* the largest value of request.retries that is tried
MaxRetries == 4
\* the largest number of text fragments in one error description
MaxFrags == 2
\* the longest decoded text that is tried
MaxTextLen == 34
\* the longest string value of a body object, and the longest string body
MaxValueLen == 2
\* the number of dispatches that run at the same time through one Fetcher
NumDispatches == 2

(* ------------------------- program constants --------------------------- *)

\* index.ts:91  default of request.retries
DefaultRetries == 0
\* index.ts:90  default of request.timeout
DefaultTimeout == 30000
\* index.ts:205
InitialDelay == 1000
\* index.ts:206
MaxDelay == 5000

\* index.ts:436  a text longer than this is cut in the error message
PreviewMax == 32
\* index.ts:437  the characters kept of a text that is cut
PreviewKeep == 29

\* index.ts:43
RetryableStatuses == {408, 409, 425, 500, 502, 503, 504}

\* index.ts:44  alternatives of HangUpPattern (case sensitive)
HangUpAlternatives == {"net::ERR_EMPTY_RESPONSE", "socket hang up"}

\* index.ts:45-49  alternatives of UnretryablePattern (flag "i")
UnretryableAlternatives ==
    {"ERR_CONNECTION_REFUSED", "ECONNREFUSED",
     "ERR_TOO_MANY_REDIRECTS", "Max redirects",
     "ERR_INTERNET_DISCONNECTED", "ENOTFOUND"}

(* --------------------------- input domains ----------------------------- *)

\* text fragments an error description is made of
Vocabulary ==
    {"socket hang up", "net::ERR_EMPTY_RESPONSE",
     "ECONNREFUSED", "econnrefused", "Max redirects", "ENOTFOUND",
     "ETIMEDOUT"}

Descriptions == {d \in SUBSET Vocabulary : Cardinality(d) \in 1..MaxFrags}

\* status codes the transport answers with
Statuses == {200, 204, 304, 404} \cup RetryableStatuses

\* request.retries as the caller passes it: << >> when the field is not given
RetriesGiven == { << >> } \cup { << n >> : n \in 0..MaxRetries }

\* URL segments
Lit(s) == [k |-> "lit", s |-> s, n |-> 0]
Var(s) == [k |-> "var", s |-> s, n |-> 0]
Val(s, n) == [k |-> "val", s |-> s, n |-> n]

NoReferer == << >>
PlainUrl == << Lit("http://localhost:3000/normal-res") >>
MagicUrl ==
    << Lit("http://localhost:3000/test-retry"), Lit("?"), Lit("currentTS="), Var("ts") >>
MagicReferer == << Lit("http://localhost:3100?ms="), Var("ms") >>

ResponseTypes == {"none", "text", "json"}

\* request.responseCharset, resInfo.charset, detect().encoding: "" when there
\* is none; iconv knows the charsets of KnownCharsets and no other
NoCharset == ""
KnownCharsets == {"utf-8"}

\* a response body (res.data, a Buffer), by what the decoder can do with it
\*   byteLength : resData.byteLength
\*   detect     : the encoding detect(resData) / detectEA(resData) reports
\*   syntax     : the parser that accepts the decoded text: "json" JSON.parse,
\*                "xml" parseXML, "plain" neither
\*   frags      : the fragments, of those the retry patterns look for, that
\*                the first PreviewKeep characters of the decoded text contain
Body(byteLength, detect, syntax, frags) ==
    [byteLength |-> byteLength, detect |-> detect, syntax |-> syntax,
     frags |-> frags]

\* what Axios answered: the status, resolveContentType's result for the
\* headers, and the body
Content(status, prefix, type, charset, body) ==
    [status |-> status, prefix |-> prefix, type |-> type, charset |-> charset,
     body |-> body]

\* the answers of the server one dispatch is run against
Answers(status) ==
    { Content(status, "application", "json", NoCharset, Body(0, NoCharset, "plain", {})),
      Content(status, "application", "json", "utf-8", Body(2, NoCharset, "json", {})),
      Content(status, "text", "html", "utf-8", Body(5, NoCharset, "plain", {})),
      Content(status, "text", "html", "utf-8",
              Body(14, NoCharset, "plain", {"socket hang up"})),
      Content(status, "image", "png", NoCharset, Body(8, NoCharset, "plain", {})) }

\* request.data: null, a string (its characters) or an object (its own
\* properties in insertion order)
NoBody == [t |-> "null", s |-> << >>, o |-> << >>]
StringBody(s) == [t |-> "string", s |-> s, o |-> << >>]
ObjectBody(o) == [t |-> "object", s |-> << >>, o |-> o]

\* the value of a property: a string, a number, null or undefined; s is
\* String(value) as qs writes it
StringValue(s) == [t |-> "string", s |-> s]
Values ==
    { StringValue(s) : s \in UNION { [1..n -> {"x", "&", "="}] : n \in 0..MaxValueLen } }
    \cup { [t |-> "number", s |-> << "1" >>], [t |-> "null", s |-> << >>],
           [t |-> "undefined", s |-> << >>] }
Keys == { << "a" >>, << "b", "=" >> }
Objects ==
    { << >> }
    \cup { << [k |-> k, v |-> v] >> : k \in Keys, v \in Values }
    \cup { o \in { << [k |-> k1, v |-> v1], [k |-> k2, v |-> v2] >> :
                      k1 \in Keys, k2 \in Keys, v1 \in Values, v2 \in Values } :
              o[1].k # o[2].k }
StringBodies ==
    { StringBody(s) : s \in UNION { [1..n -> {"?", "&", "q"}] : n \in 0..MaxValueLen } }

\* the url, referer and body a caller passes
Targets ==
    { [url |-> PlainUrl, referer |-> NoReferer, data |-> NoBody],
      [url |-> MagicUrl, referer |-> NoReferer, data |-> NoBody],
      [url |-> MagicUrl, referer |-> MagicReferer, data |-> NoBody],
      [url |-> MagicUrl, referer |-> MagicReferer,
       data |-> ObjectBody(<< [k |-> << "a" >>, v |-> StringValue(<< "x" >>)] >>)] }

\* constructProxy(request.proxy): protocol, host, port, and auth as
\* "username:password" ("" when there is none); NoProxy when request.proxy is
\* not given
NoProxy == [protocol |-> "", host |-> "", port |-> 0, auth |-> ""]
Proxies ==
    { NoProxy,
      [protocol |-> "http:", host |-> "proxy.local", port |-> 8080, auth |-> ""],
      [protocol |-> "http:", host |-> "proxy.local", port |-> 8080, auth |-> "user:pw"],
      [protocol |-> "https:", host |-> "proxy.local", port |-> 8080, auth |-> ""] }

\* request.method as the caller passes it: << >> when the field is not given
MethodsGiven == { << >> } \cup { << m >> : m \in {"GET", "HEAD", "get", "head", "POST"} }

\* extractContentType(request.headers["content-type"]).type
ContentTypes == {"", "x-www-form-urlencoded", "json"}

\* the inputs the decoder is tried on by itself
AllResponseTypes == {"none", "text", "json", "buffer", "stream"}
Charsets == {NoCharset, "utf-8", "x-unknown"}
MimeTypes ==
    { << "text", "html" >>, << "application", "json" >>, << "application", "xml" >>,
      << "application", "octet-stream" >>, << "image", "png" >>, << "*", "*" >> }
TextLens == {1, PreviewKeep, PreviewMax, PreviewMax + 1, MaxTextLen}
DecodeBodies ==
    { Body(0, NoCharset, s, {}) : s \in {"plain", "xml"} }
    \cup { Body(n, d, s, {}) :
              n \in TextLens, d \in {NoCharset, "utf-8"}, s \in {"json", "xml", "plain"} }
DecodeAnswers ==
    { Content(st, m[1], m[2], cs, b) :
        st \in {200, 404}, m \in MimeTypes, cs \in Charsets, b \in DecodeBodies }

(* --------------------------- pure functions ---------------------------- *)

Min(a, b) == IF a <= b THEN a ELSE b
Max(a, b) == IF a >= b THEN a ELSE b

\* String.prototype.toUpperCase on the fragments of the vocabulary, as the
\* "i" flag of a RegExp compares
CaseFold(s) ==
    CASE s = "econnrefused" -> "ECONNREFUSED"
      [] s = "Max redirects" -> "MAX REDIRECTS"
      [] s = "socket hang up" -> "SOCKET HANG UP"
      [] OTHER -> s

\* HangUpPattern.test(String(error))
HangUpPattern(desc) == \E f \in desc : f \in HangUpAlternatives

\* UnretryablePattern.test(String(error))
UnretryablePattern(desc) ==
    \E f \in desc : \E a \in UnretryableAlternatives : CaseFold(f) = CaseFold(a)

(* ------------------ values exchanged with the transport ---------------- *)

\* a message: the fragments of its text, the URL after " at ", and the body
\* text quoted in it
NoMessage == [text |-> {}, at |-> << >>, quoted |-> << >>]

\* response.data: a string (shape "string", its characters), a Buffer (shape
\* "bytes", the body), a parsed value (shape "value", the characters parsed
\* and the parser) or a stream (shape "stream", the body)
Data(shape, content, by) == [shape |-> shape, content |-> content, by |-> by]

NoData == Data("", << >>, "")

\* a Response (types.ts Response): only the fields the dispatcher and the
\* decoder decide
Resp(ok, status, type, data) ==
    [kind |-> "response", ok |-> ok, status |-> status, type |-> type, data |-> data,
     name |-> "", message |-> NoMessage, isAxiosError |-> FALSE]

\* an Error object: name, message and the isAxiosError flag Axios puts on its
\* errors
Err(name, text, isAxiosError) ==
    [kind |-> "error", ok |-> FALSE, status |-> 0, type |-> "", data |-> NoData,
     name |-> name, message |-> [text |-> text, at |-> << >>, quoted |-> << >>],
     isAxiosError |-> isAxiosError]

Nothing ==
    [kind |-> "none", ok |-> FALSE, status |-> 0, type |-> "", data |-> NoData,
     name |-> "", message |-> NoMessage, isAxiosError |-> FALSE]

\* String(error): the fragments of "<name>: <message>"
Describe(error) == error.message.text

(* ------------------------- magic variables ----------------------------- *)

\* utils.resolveMagicVars: {ts} -> UNIX seconds, {ms} -> epoch milliseconds
resolveMagicVars(tpl, clock) ==
    [i \in DOMAIN tpl |->
        IF tpl[i].k = "var"
        THEN Val(tpl[i].s, IF tpl[i].s = "ts" THEN clock \div 1000 ELSE clock)
        ELSE tpl[i]]

HasPlaceholder(tpl) == \E i \in DOMAIN tpl : tpl[i].k = "var"

(* ---------------------------- makeRequest ------------------------------ *)

\* index.ts:364
IsOk(status) == status >= 200 /\ status <= 299

\* the characters of a decoded text are numbered by their position; 0 stands
\* for the character "."
Text(n) == [i \in 1..n |-> i]
Ellipsis == << 0, 0, 0 >>

\* index.ts:384-394  request.responseCharset || resInfo.charset || detect()
ResolveCharset(req, res) ==
    IF req.responseCharset # NoCharset THEN req.responseCharset
    ELSE IF res.charset # NoCharset THEN res.charset
    ELSE res.body.detect

\* iconv.decode(resData, charset): throws for an encoding iconv does not
\* know, gives a string for every other one
CanDecode(charset) == charset \in KnownCharsets
Decoded(body) == Text(body.byteLength)

\* index.ts:432  JSON.parse(data) returns (it throws for the empty string)
JSONParses(body) == body.byteLength > 0 /\ body.syntax = "json"

\* utils.parseXML(data) returns
parseXMLParses(body) == body.syntax = "xml"

\* a faulty variant of Preview: the text is quoted whole
PreviewWhole(text) == text

\* index.ts:435-438  the text quoted in the JSON error
Preview(text) ==
    IF Len(text) > PreviewMax
    THEN SubSeq(text, 1, PreviewKeep) \o Ellipsis
    ELSE text

\* a faulty variant of Undecoded: the buffer branch decodes the bytes
UndecodedAsText(res) ==
    Resp(IsOk(res.status), res.status, "buffer",
         Data("string", Decoded(res.body), "iconv"))

\* index.ts:399-400, 460-461, 464-465, 468-469  type "buffer" with the bytes
\* as Axios gave them
Undecoded(res) ==
    Resp(IsOk(res.status), res.status, "buffer", Data("bytes", res.body, ""))

\* index.ts:402-442: the forced branch of the decoder (responseType text or
\* json); the result is the decoded Response or the TypeError thrown
ForcedDecode(req, res) ==
    LET charset == ResolveCharset(req, res)
        text == IF res.body.byteLength = 0 THEN << >> ELSE Decoded(res.body)
        parses == IF res.type = "xml" THEN parseXMLParses(res.body)
                                      ELSE JSONParses(res.body)
    IN  IF res.body.byteLength # 0 /\ (charset = NoCharset \/ ~CanDecode(charset))
        THEN Err("TypeError", {"Cannot decode the data"}, FALSE)
        ELSE IF req.responseType = "json"
             THEN IF parses
                  THEN Resp(IsOk(res.status), res.status, "json",
                            Data("value", text,
                                 IF res.type = "xml" THEN "parseXML" ELSE "JSON.parse"))
                  ELSE [Err("TypeError", {"Cannot decode the data"} \cup res.body.frags,
                            FALSE) EXCEPT !.message.quoted = Preview(text)]
             ELSE Resp(IsOk(res.status), res.status, "text",
                       Data("string", text, IF text = << >> THEN "" ELSE "iconv"))

\* a faulty variant of AutoDecode: a failure is raised as the forced branch
\* raises it
AutoDecodeStrict(req, res) ==
    IF res.prefix \in {"text", "application", "*"}
    THEN ForcedDecode([req EXCEPT !.responseType =
                            IF res.type \in {"json", "xml"} THEN "json" ELSE "text"],
                      res)
    ELSE Undecoded(res)

\* index.ts:443-473: auto detection; a text, application or wildcard content
\* type is decoded, and a failure falls back to the raw bytes
AutoDecode(req, res) ==
    LET charset == ResolveCharset(req, res)
        text == Decoded(res.body)
    IN  IF res.prefix \in {"text", "application", "*"}
        THEN IF res.body.byteLength = 0
             THEN Resp(IsOk(res.status), res.status, "text", Data("string", << >>, ""))
             ELSE IF charset # NoCharset
                  THEN IF ~CanDecode(charset) THEN Undecoded(res)
                       ELSE IF res.type = "json"
                            THEN IF JSONParses(res.body)
                                 THEN Resp(IsOk(res.status), res.status, "json",
                                           Data("value", text, "JSON.parse"))
                                 ELSE Undecoded(res)
                       ELSE IF res.type = "xml"
                            THEN IF parseXMLParses(res.body)
                                 THEN Resp(IsOk(res.status), res.status, "json",
                                           Data("value", text, "parseXML"))
                                 ELSE Undecoded(res)
                       ELSE Resp(IsOk(res.status), res.status, "text",
                                 Data("string", text, "iconv"))
                  ELSE Undecoded(res)
        ELSE Undecoded(res)

\* index.ts:286-479: what the handle gives back for what Axios.request did.
\* ax.kind = "err": Axios rejected without a response; the error is rethrown
\* ax.kind = "res": Axios resolved, or rejected with err.response set; ax.res
\*                  is the answer
makeRequest(req, ax) ==
    IF ax.kind = "err"
    THEN Err("Error", ax.text, ax.isAxiosError)
    ELSE IF req.responseType = "stream"
    THEN Resp(IsOk(ax.res.status), ax.res.status, "stream",
              Data("stream", ax.res.body, ""))
    ELSE IF req.responseType = "buffer"
            \/ (req.responseType = "none" /\ ax.res.type \in {"buffer", "octet-stream"})
    THEN Undecoded(ax.res)
    ELSE IF req.responseType # "none"
    THEN ForcedDecode(req, ax.res)
    ELSE AutoDecode(req, ax.res)

\* utils.fixResponse(response, request)
fixResponse(response, req) ==
    [response EXCEPT !.ok = (response.status >= 200 /\ response.status <= 299)
                            \/ response.status = 304]

(* --------------------------- proxy agents ------------------------------ *)

\* a faulty variant of ProxyUrl: the credentials are part of the key
ProxyUrlWithAuth(proxy) ==
    << IF proxy.protocol = "https:" THEN "https://" ELSE "http://",
       proxy.auth, "@", proxy.host, ":", proxy.port >>

\* index.ts:306-313  the key of the agent cache
ProxyUrl(proxy) ==
    << IF proxy.protocol = "https:" THEN "https://" ELSE "http://",
       proxy.host, ":", proxy.port >>

ProxyUrls == { ProxyUrl(x) : x \in Proxies \ {NoProxy} }

\* agents: the one a proxy agent is made of, the default one, none
ProxyAgent(proxy, serial) ==
    [url |-> ProxyUrl(proxy), auth |-> proxy.auth, serial |-> serial]
DefaultAgent == [url |-> << >>, auth |-> "", serial |-> 0]
NoAgent == [url |-> << >>, auth |-> "", serial |-> -1]

\* a faulty variant of HasAgent: the cache is never found filled
HasAgentNever(agents, key) == FALSE

\* index.ts:315  this.proxyAgents[proxyUrl] is set
HasAgent(agents, key) == agents[key] # NoAgent

\* index.ts:304-336  the cache after makeRequest has looked up, and when
\* absent created, the agent of the request's proxy; made counts the agents
\* created per key
AgentsAfter(agents, made, proxy) ==
    IF proxy = NoProxy \/ HasAgent(agents, ProxyUrl(proxy))
    THEN agents
    ELSE [agents EXCEPT ![ProxyUrl(proxy)] =
                            ProxyAgent(proxy, made[ProxyUrl(proxy)] + 1)]

\* index.ts:292-293, 335  options.httpAgent / httpsAgent of the call
AgentUsed(agents, made, proxy) ==
    IF proxy = NoProxy THEN DefaultAgent
    ELSE AgentsAfter(agents, made, proxy)[ProxyUrl(proxy)]

(* ----------------------- the backoff library --------------------------- *)

\* index.ts:204-207  exponential({ initialDelay, maxDelay })
NewTick ==
    [backoffNumber |-> 0, backoffDelay |-> 0, nextBackoffDelay |-> InitialDelay,
     timer |-> FALSE]

\* a faulty variant of TickBackoff: the delay is not capped at maxDelay
TickBackoffNoCap(t) ==
    [t EXCEPT !.backoffDelay = t.nextBackoffDelay,
              !.nextBackoffDelay = t.nextBackoffDelay * 2, !.timer = TRUE]

\* a faulty variant of TickBackoff: no timer is set
TickBackoffUnarmed(t) ==
    [t EXCEPT !.backoffDelay = Min(t.nextBackoffDelay, MaxDelay),
              !.nextBackoffDelay = Min(t.nextBackoffDelay, MaxDelay) * 2]

\* a faulty variant of TickBackoff: the delay does not grow
TickBackoffFlat(t) ==
    [t EXCEPT !.backoffDelay = Min(t.nextBackoffDelay, MaxDelay), !.timer = TRUE]

\* tick.backoff(): the strategy's next delay, and the timer is set
TickBackoff(t) ==
    LET d == Min(t.nextBackoffDelay, MaxDelay)
    IN  [t EXCEPT !.backoffDelay = d, !.nextBackoffDelay = d * 2, !.timer = TRUE]

\* a faulty variant of TickReady: the fired timer is not forgotten
TickReadyTimerKept(t) == [t EXCEPT !.backoffNumber = t.backoffNumber + 1]

\* the timer fired: "ready" is emitted, then the number is incremented
TickReady(t) ==
    [t EXCEPT !.timer = FALSE, !.backoffNumber = t.backoffNumber + 1]

\* a faulty variant of TickReset: the timer is left armed
TickResetArmed(t) == [NewTick EXCEPT !.timer = TRUE]

\* tick.reset()
TickReset(t) == NewTick

(* --------------------------- query strings ---------------------------- *)

\* a string is the sequence of its characters; an escape sequence %XX is one
\* element

\* encodeURIComponent of one character, as qs.stringify applies it
EncodeChar(c) ==
    CASE c = "&" -> "%26"
      [] c = "=" -> "%3D"
      [] c = "?" -> "%3F"
      [] OTHER -> c

\* decodeURIComponent of one element, as qs.parse applies it
DecodeChar(c) ==
    CASE c = "%26" -> "&"
      [] c = "%3D" -> "="
      [] c = "%3F" -> "?"
      [] OTHER -> c

Encode(s) == [i \in DOMAIN s |-> EncodeChar(s[i])]
Decode(s) == [i \in DOMAIN s |-> DecodeChar(s[i])]

\* the index of the first c in s, 0 when there is none
IndexOf(s, c) ==
    IF \E i \in DOMAIN s : s[i] = c
    THEN CHOOSE i \in DOMAIN s : s[i] = c /\ \A j \in 1..(i - 1) : s[j] # c
    ELSE 0

\* String.prototype.includes
Includes(s, c) == IndexOf(s, c) # 0

\* lodash trimStart(s, chars)
RECURSIVE TrimStart(_, _)
TrimStart(s, chars) ==
    IF s # << >> /\ Head(s) \in chars THEN TrimStart(Tail(s), chars) ELSE s

\* a faulty variant of QsStringify: nothing is escaped
RECURSIVE QsStringifyPlain(_, _)
QsStringifyPlain(o, encodeValuesOnly) ==
    IF o = << >> THEN << >>
    ELSE LET rest == QsStringifyPlain(Tail(o), encodeValuesOnly)
             this == Head(o).k \o << "=" >> \o Head(o).v.s
         IN  IF Head(o).v.t = "undefined" THEN rest
             ELSE IF rest = << >> THEN this ELSE this \o << "&" >> \o rest

\* qs.stringify(object, { encodeValuesOnly }): key=value joined by "&", an
\* undefined value is left out, null is written as the empty string
RECURSIVE QsStringify(_, _)
QsStringify(o, encodeValuesOnly) ==
    IF o = << >> THEN << >>
    ELSE LET rest == QsStringify(Tail(o), encodeValuesOnly)
             key == IF encodeValuesOnly THEN Head(o).k ELSE Encode(Head(o).k)
             this == key \o << "=" >> \o Encode(Head(o).v.s)
         IN  IF Head(o).v.t = "undefined" THEN rest
             ELSE IF rest = << >> THEN this ELSE this \o << "&" >> \o rest

\* qs.parse(query): the parts between "&", each cut at its first "=", both
\* sides decoded; every value is a string
RECURSIVE QsParse(_)
QsParse(q) ==
    IF q = << >> THEN << >>
    ELSE LET amp == IndexOf(q, "&")
             part == IF amp = 0 THEN q ELSE SubSeq(q, 1, amp - 1)
             rest == IF amp = 0 THEN << >> ELSE QsParse(SubSeq(q, amp + 1, Len(q)))
             eq == IndexOf(part, "=")
             pair == IF eq = 0
                     THEN [k |-> Decode(part), v |-> StringValue(<< >>)]
                     ELSE [k |-> Decode(SubSeq(part, 1, eq - 1)),
                           v |-> StringValue(Decode(SubSeq(part, eq + 1, Len(part))))]
         IN  IF part = << >> THEN rest ELSE << pair >> \o rest

(* ------------------------------ dispatch ------------------------------- *)

\* index.ts:109, 124  the methods whose body goes into the URL
QueryMethods == {"GET", "HEAD", "get", "head"}

\* index.ts:98-106  patchQueryString(query) on the request
PatchQueryString(req, query) ==
    [req EXCEPT !.data = NoBody,
                !.url = IF Includes(req.url, Lit("?"))
                        THEN req.url \o << Lit("&") >> \o [i \in DOMAIN query |-> Lit(query[i])]
                        ELSE req.url \o << Lit("?") >> \o [i \in DOMAIN query |-> Lit(query[i])]]

\* index.ts:85-95  the defaults under the fields the caller gave
Defaults(t) ==
    [url |-> t.url, referer |-> t.referer,
     retries |-> IF t.retries = << >> THEN DefaultRetries ELSE t.retries[1],
     responseType |-> t.responseType, responseCharset |-> t.responseCharset,
     method |-> IF t.method = << >> THEN "GET" ELSE t.method[1],
     contentType |-> t.contentType, data |-> t.data, proxy |-> t.proxy,
     timeout |-> IF t.timeout = << >> THEN DefaultTimeout ELSE t.timeout[1]]


\* index.ts:85-129: the normalized request: the defaults, then the body of a
\* GET or HEAD moved into the URL, or an object body form-encoded
Normalize(t) ==
    LET req == Defaults(t)
    IN  IF req.data.t = "null" \/ (req.data.t = "string" /\ req.data.s = << >>)
        THEN req
        ELSE IF req.data.t = "object"
        THEN IF req.method \in QueryMethods
             THEN PatchQueryString(req, QsStringify(req.data.o, FALSE))
             ELSE IF req.contentType = "x-www-form-urlencoded"
                  THEN [req EXCEPT !.data = StringBody(QsStringify(req.data.o, TRUE))]
                  ELSE req
        ELSE IF req.method \in QueryMethods
             THEN PatchQueryString(req, TrimStart(req.data.s, {"?", "&"}))
             ELSE req

\* a faulty variant of ResolveRequest: the substitution reads the request's own url and
\* referer, which hold the values resolved for the attempt before
ResolveRequestStale(req, tplUrl, tplReferer, magic, clock) ==
    IF magic
    THEN [req EXCEPT !.url = resolveMagicVars(req.url, clock),
                     !.referer = IF tplReferer # NoReferer
                                 THEN resolveMagicVars(req.referer, clock)
                                 ELSE req.referer]
    ELSE req

\* index.ts:143-150: the request of one attempt
ResolveRequest(req, tplUrl, tplReferer, magic, clock) ==
    IF magic
    THEN [req EXCEPT !.url = resolveMagicVars(tplUrl, clock),
                     !.referer = IF tplReferer # NoReferer
                                 THEN resolveMagicVars(tplReferer, clock)
                                 ELSE req.referer]
    ELSE req

\* index.ts:162  isGone
IsGone(out) == out.kind = "error" /\ HangUpPattern(Describe(out))

\* a faulty variant of HangUpRetry: a hang-up is retried twice
HangUpRetryTwice(n, req) == n < 2

\* a faulty variant of HangUpRetry: a hang-up is retried while the budget lasts
HangUpRetryBudget(n, req) == n < req.retries

\* index.ts:170  the hang-up rule
HangUpRetry(n, req) == n < 1

\* a faulty variant of ErrorRetry: the budget is compared with <=
ErrorRetryOffByOne(out, n, req) ==
    n <= req.retries /\ ~UnretryablePattern(Describe(out))

\* index.ts:172-173  the rule of every other error
ErrorRetry(out, n, req) == n < req.retries /\ ~UnretryablePattern(Describe(out))

\* a faulty variant of ResponseRetry: the status is not looked at
ResponseRetryAnyStatus(out, n, req) == ~out.ok /\ n < req.retries

\* index.ts:159-161  the rule of a response
ResponseRetry(out, n, req) ==
    ~out.ok /\ n < req.retries /\ out.status \in RetryableStatuses

\* index.ts:158-174  shouldRetry
ShouldRetry(out, n, req) ==
    IF out.kind = "response" THEN ResponseRetry(out, n, req)
    ELSE IF HangUpPattern(Describe(out)) THEN HangUpRetry(n, req)
    ELSE ErrorRetry(out, n, req)

\* a faulty variant of Rejects: a response that is not ok is rejected as well
RejectsNotOk(out) == out.kind = "error" \/ ~out.ok

\* index.ts:181  if (error): the promise is rejected, else resolved
Rejects(out) == out.kind = "error"

\* a faulty variant of RejectedMessage: the message is never rewritten
RejectedMessageKept(out, req) == out.message

\* index.ts:182-193: the message of the rejected error
RejectedMessage(out, req) ==
    IF out.isAxiosError /\ IsGone(out)
    THEN [text |-> {"net::ERR_EMPTY_RESPONSE"}, at |-> req.url, quoted |-> << >>]
    ELSE out.message

\* index.ts:196  error["response"] = response || null, where response is the
\* local of this attempt: 0 stands for null
RejectedResponse(out) == IF out.kind = "response" THEN out.status ELSE 0

\* a faulty variant of ResolvedValue: the response is resolved as the handle
\* returned it
ResolvedValueRaw(out, req) == out

\* index.ts:200  resolve(fixResponse(response, request))
ResolvedValue(out, req) == fixResponse(out, req)

(* ------------------------------- state --------------------------------- *)

VARIABLES
    target,      \* the request as the caller passed it to dispatch
    magicVars,   \* the magicVars argument of dispatch
    request,     \* the normalized request object of the dispatch
    url,         \* index.ts:132  the URL template kept by the closure
    referer,     \* index.ts:133  the referer template kept by the closure
    retries,     \* index.ts:134  the attempt counter of the running doRequest
    tick,        \* index.ts:204  the backoff object
    pc,          \* "new", "inflight", "backoff", "resolved", "rejected"
    outcome,     \* what the handle returned or threw on the last attempt
    settled,     \* the value the promise was resolved or rejected with
    now,         \* the wall clock, in ms
    calls,       \* history: the number of handle calls
    handed,      \* history: the url and referer handed to each handle call
    times,       \* history: the clock at each handle call
    delays,      \* history: the delay of each backoff
    lastStatus,  \* history: the status of the last response received, 0 if none
    only425,     \* history: every attempt before the last call returned status 425
    hangUpRetries, \* history: the number of retries scheduled after a hang-up
    inflight,    \* the number of handle calls that have not settled yet
    settlements, \* history: the number of resolve() and reject() calls
    settledAt,   \* history: the number of handle calls made when first settled
    caller,      \* the object the caller passed to fetch, as it is now
    dReq,        \* the decoder by itself: the request,
    dRes,        \*   what Axios answered,
    dOut,        \*   and what makeRequest returned or threw
    nTarget,     \* the normalization by itself: the request as passed,
    nReq,        \*   the request handed to the first handle call,
    nDone,       \*   and whether that call has been made
    cReq,        \* dispatches side by side: the normalized request of each,
    cSt,         \*   the attempt state of each,
    cTick,       \*   the backoff of each,
    cAgent,      \*   the agent the latest handle call of each uses,
    proxyAgents, \*   this.proxyAgents of the one Fetcher,
    agentsMade   \*   history: the proxy agents created, per cache key

dispatchVars ==
    << target, magicVars, request, url, referer, retries, tick, pc, outcome,
       settled, now, calls, handed, times, delays, lastStatus, only425,
       hangUpRetries, inflight, settlements, settledAt, caller >>

decodeVars == << dReq, dRes, dOut >>

normalizeVars == << nTarget, nReq, nDone >>

concVars == << cReq, cSt, cTick, cAgent, proxyAgents, agentsMade >>

besidesDispatch == << decodeVars, normalizeVars, concVars >>

vars == << dispatchVars, decodeVars, normalizeVars, concVars >>

\* the fields of the object the caller passes to fetch; of the headers, the
\* referer and whether they hold the headers fetch fills in
CallerOf(t) ==
    [url |-> t.url, headers |-> [referer |-> t.referer, filled |-> FALSE],
     data |-> t.data, timeout |-> t.timeout, retries |-> t.retries]

\* a faulty variant of FetchRequest: fetch works on the caller's object
FetchRequestShared == "caller"

\* index.ts:227  the object fetch works on: a shallow copy of the caller's
FetchRequest == "copy"

\* index.ts:85-95  the object dispatch works on: Object.assign onto a new
\* object literal
DispatchRequest == "copy"

\* index.ts:235-277: what fetch writes, seen through the caller's object:
\* request.headers = headers, and request.timeout when it is not set
CallerAfterFetch(c) ==
    IF FetchRequest = "caller"
    THEN [c EXCEPT !.headers = [referer |-> @.referer, filled |-> TRUE],
                   !.timeout = IF @ = << >> THEN << DefaultTimeout >> ELSE @]
    ELSE c

\* index.ts:93-94, 98-106, 143-150: what dispatch writes, seen through the
\* caller's object: request.headers, request.data and request.url in
\* patchQueryString, request.url and request.headers.referer in doRequest
CallerAfterAttempt(c, req) ==
    IF FetchRequest = "caller" /\ DispatchRequest = "caller"
    THEN [c EXCEPT !.url = req.url, !.data = req.data,
                   !.headers = [referer |-> req.referer, filled |-> TRUE]]
    ELSE c

\* before dispatch builds it there is no request object
NoRequest ==
    [url |-> << >>, referer |-> << >>, retries |-> DefaultRetries,
     responseType |-> "none", responseCharset |-> NoCharset,
     method |-> "GET", contentType |-> "", data |-> NoBody, proxy |-> NoProxy,
     timeout |-> DefaultTimeout]

NoSettled ==
    [kind |-> "none", ok |-> FALSE, status |-> 0, type |-> "", data |-> NoData,
     name |-> "", message |-> NoMessage, isAxiosError |-> FALSE,
     request |-> << >>, response |-> 0]

\* no dispatch has begun
NotDispatched ==
    /\ request = NoRequest
    /\ url = << >>
    /\ referer = << >>
    /\ retries = -1
    /\ tick = NewTick
    /\ pc = "new"
    /\ outcome = Nothing
    /\ settled = NoSettled
    /\ now = 0
    /\ calls = 0
    /\ handed = << >>
    /\ times = << >>
    /\ delays = << >>
    /\ lastStatus = 0
    /\ only425 = TRUE
    /\ hangUpRetries = 0
    /\ inflight = 0
    /\ settlements = 0
    /\ settledAt = 0

NoAnswer == Content(0, "", "", NoCharset, Body(0, NoCharset, "plain", {}))

DecodeIdle == dReq = NoRequest /\ dRes = NoAnswer /\ dOut = Nothing

Procs == 1..NumDispatches

\* the attempt state of one dispatch: where it is, the attempt counter, and
\* as history the outcomes of its handle calls, the counter and the retry
\* decision at each, the delays it waited, and what it settled with
NewAttempts ==
    [pc |-> "new", retries |-> -1, outs |-> << >>, counters |-> << >>,
     decisions |-> << >>, delays |-> << >>, settled |-> Nothing]

ConcIdle ==
    /\ cReq = [p \in Procs |-> NoRequest]
    /\ cSt = [p \in Procs |-> NewAttempts]
    /\ cTick = [p \in Procs |-> NewTick]
    /\ cAgent = [p \in Procs |-> NoAgent]
    /\ proxyAgents = [u \in ProxyUrls |-> NoAgent]
    /\ agentsMade = [u \in ProxyUrls |-> 0]

NormalizeIdle == nTarget = NoRequest /\ nReq = NoRequest /\ nDone = FALSE

Init ==
    /\ DecodeIdle
    /\ NormalizeIdle
    /\ ConcIdle
    /\ target \in { [url |-> t.url, referer |-> t.referer, retries |-> r,
                     responseType |-> rt, responseCharset |-> NoCharset,
                     method |-> << >>, contentType |-> "", data |-> t.data,
                     proxy |-> NoProxy, timeout |-> << >>] :
                    t \in Targets, r \in RetriesGiven, rt \in ResponseTypes }
    /\ magicVars \in BOOLEAN
    /\ caller = CallerOf(target)
    /\ NotDispatched

\* index.ts:134-153: doRequest(arg) up to the call of the handle
DoRequestBegin(req, tplUrl, tplReferer, arg) ==
    /\ retries' = arg + 1
    /\ request' = ResolveRequest(req, tplUrl, tplReferer, magicVars, now')
    /\ pc' = "inflight"
    /\ inflight' = inflight + 1
    /\ calls' = calls + 1
    /\ handed' = Append(handed, [url |-> request'.url, referer |-> request'.referer])
    /\ times' = Append(times, now')
    /\ only425' = (calls = 0 \/ (only425 /\ outcome.kind = "response"
                                          /\ outcome.status = 425))

\* index.ts:80-133, 209: dispatch(request, handle, magicVars) up to the first
\* call of the handle
Dispatch ==
    /\ pc = "new"
    /\ now' = now
    /\ url' = Normalize(target).url
    /\ referer' = Normalize(target).referer
    /\ DoRequestBegin(Normalize(target), url', referer', -1)
    /\ caller' = CallerAfterAttempt(CallerAfterFetch(caller), request')
    /\ UNCHANGED << target, magicVars, tick, outcome, settled, delays,
                    lastStatus, hangUpRetries, settlements, settledAt >>
    /\ UNCHANGED besidesDispatch

\* index.ts:158-202: doRequest after the handle returned or threw `out`
DoRequestEnd(out) ==
    /\ inflight > 0
    /\ inflight' = inflight - 1
    /\ outcome' = out
    /\ lastStatus' = IF out.kind = "response" THEN out.status ELSE lastStatus
    /\ IF ShouldRetry(out, retries, request)
       THEN /\ tick' = TickBackoff(tick)
            /\ pc' = "backoff"
            /\ delays' = Append(delays, tick'.backoffDelay)
            /\ hangUpRetries' = hangUpRetries + (IF IsGone(out) THEN 1 ELSE 0)
            /\ settled' = settled
            /\ UNCHANGED << settlements, settledAt >>
       ELSE /\ tick' = TickReset(tick)
            /\ settlements' = settlements + 1
            /\ settledAt' = IF settlements = 0 THEN calls ELSE settledAt
            /\ UNCHANGED << delays, hangUpRetries >>
            /\ IF Rejects(out)
               THEN /\ pc' = "rejected"
                    /\ settled' = [kind |-> "error", ok |-> FALSE, status |-> 0,
                                   type |-> "", data |-> NoData, name |-> out.name,
                                   message |-> RejectedMessage(out, request),
                                   isAxiosError |-> FALSE,
                                   request |-> request,
                                   response |-> RejectedResponse(out)]
               ELSE /\ pc' = "resolved"
                    /\ settled' = [kind |-> "response",
                                   ok |-> ResolvedValue(out, request).ok,
                                   status |-> ResolvedValue(out, request).status,
                                   type |-> ResolvedValue(out, request).type,
                                   data |-> ResolvedValue(out, request).data,
                                   name |-> "", message |-> NoMessage,
                                   isAxiosError |-> FALSE,
                                   request |-> << >>, response |-> 0]
    /\ UNCHANGED << target, magicVars, request, url, referer, retries, now,
                    calls, handed, times, only425, caller >>
    /\ UNCHANGED besidesDispatch

\* the handle settles after Axios answered with a status and a body
TransportAnswers ==
    \E status \in Statuses :
        \E res \in Answers(status) :
            DoRequestEnd(makeRequest(request, [kind |-> "res", res |-> res]))

\* the handle throws the error Axios.request rejected with
TransportFails ==
    \E text \in Descriptions, isAxiosError \in BOOLEAN :
        DoRequestEnd(makeRequest(request, [kind |-> "err", text |-> text,
                                           isAxiosError |-> isAxiosError]))

\* index.ts:204-207: the backoff timer fires after its delay and "ready" calls
\* doRequest(backoffNumber)
TimerFires ==
    /\ tick.timer
    /\ now' = now + tick.backoffDelay
    /\ tick' = TickReady(tick)
    /\ DoRequestBegin(request, url, referer, tick.backoffNumber)
    /\ caller' = CallerAfterAttempt(caller, request')
    /\ UNCHANGED << target, magicVars, url, referer, outcome, settled, delays,
                    lastStatus, hangUpRetries, settlements, settledAt >>
    /\ UNCHANGED besidesDispatch

Next == Dispatch \/ TransportFails \/ TransportAnswers \/ TimerFires

Spec == Init /\ [][Next]_vars

\* the dispatch of a request without magic variables under the scheduling it
\* relies on: the first doRequest() runs in the promise executor
\* (index.ts:209), every handle call returns or throws, and every timer set
\* by tick.backoff() fires
FairInit == Init /\ target.url = PlainUrl /\ ~magicVars

FairSpec ==
    /\ FairInit
    /\ [][Next]_vars
    /\ WF_vars(Dispatch)
    /\ WF_vars(TransportFails \/ TransportAnswers)
    /\ WF_vars(TimerFires)

(* ------------------------ the decoder by itself ------------------------ *)

\* no dispatch is under way
DispatchIdle ==
    /\ target = [url |-> PlainUrl, referer |-> NoReferer, retries |-> << >>,
                 responseType |-> "none", responseCharset |-> NoCharset,
                 method |-> << >>, contentType |-> "", data |-> NoBody,
                 proxy |-> NoProxy, timeout |-> << >>]
    /\ magicVars = FALSE
    /\ caller = CallerOf(target)
    /\ NotDispatched

DecodeInit ==
    /\ dReq \in { [NoRequest EXCEPT !.url = PlainUrl, !.responseType = rt,
                                     !.responseCharset = cs] :
                   rt \in AllResponseTypes, cs \in Charsets }
    /\ dRes \in DecodeAnswers
    /\ dOut = Nothing
    /\ DispatchIdle
    /\ NormalizeIdle
    /\ ConcIdle

\* index.ts:286-479  makeRequest once Axios.request has answered
Resolve ==
    /\ dOut = Nothing
    /\ dOut' = makeRequest(dReq, [kind |-> "res", res |-> dRes])
    /\ UNCHANGED << dReq, dRes >>
    /\ UNCHANGED << dispatchVars, normalizeVars, concVars >>

SpecDecode == DecodeInit /\ [][Resolve]_vars

(* --------------------- the normalization by itself --------------------- *)

QueryUrls ==
    { << Lit("http://localhost:3000/path") >>,
      << Lit("http://localhost:3000/path"), Lit("?"), Lit("p"), Lit("="), Lit("1") >> }

NormalizeInit ==
    /\ nTarget \in { [url |-> u, referer |-> NoReferer, retries |-> << >>,
                       responseType |-> "none", responseCharset |-> NoCharset,
                       method |-> m, contentType |-> ct, data |-> d,
                       proxy |-> NoProxy, timeout |-> << >>] :
                      u \in QueryUrls, m \in MethodsGiven, ct \in ContentTypes,
                      d \in {NoBody} \cup StringBodies
                               \cup { ObjectBody(o) : o \in Objects } }
    /\ nReq = NoRequest
    /\ nDone = FALSE
    /\ DispatchIdle
    /\ DecodeIdle
    /\ ConcIdle

\* index.ts:85-153  dispatch up to the first call of the handle
NormalizeRequest ==
    /\ ~nDone
    /\ nDone' = TRUE
    /\ nReq' = ResolveRequest(Normalize(nTarget), Normalize(nTarget).url,
                              Normalize(nTarget).referer, FALSE, 0)
    /\ UNCHANGED nTarget
    /\ UNCHANGED << dispatchVars, decodeVars, concVars >>

SpecNormalize == NormalizeInit /\ [][NormalizeRequest]_vars

(* ------------------------ dispatches side by side ---------------------- *)

\* request.retries of the dispatches that run side by side
ConcRetries == {0, 1}

\* what Axios.request does in them
ConcAnswers ==
    { Content(st, "text", "html", "utf-8", Body(5, NoCharset, "plain", {})) :
        st \in {200, 503} }
ConcFailures == { {"socket hang up"} }

\* a faulty variant of TickOwner: one backoff serves every dispatch
TickOwnerShared(p) == 1

\* index.ts:204  tick is a local of the promise executor of each dispatch
TickOwner(p) == p

\* index.ts:134-153  doRequest(arg) up to the call of the handle
AttemptBegun(st, arg) == [st EXCEPT !.pc = "inflight", !.retries = arg + 1]

\* index.ts:181-200  what the promise settles with
SettledWith(out, req) ==
    IF Rejects(out)
    THEN [out EXCEPT !.message = RejectedMessage(out, req)]
    ELSE ResolvedValue(out, req)

\* index.ts:155-201  doRequest once the handle has settled with out
AttemptEnded(st, t, req, out) ==
    LET retry == ShouldRetry(out, st.retries, req)
    IN  [st EXCEPT !.outs = Append(@, out),
                   !.counters = Append(@, st.retries),
                   !.decisions = Append(@, retry),
                   !.delays = IF retry THEN Append(@, TickBackoff(t).backoffDelay) ELSE @,
                   !.pc = IF retry THEN "backoff"
                          ELSE IF Rejects(out) THEN "rejected" ELSE "resolved",
                   !.settled = IF retry THEN @ ELSE SettledWith(out, req)]

\* index.ts:176, 178  tick.backoff() or tick.reset()
TickEnded(st, t, req, out) ==
    IF ShouldRetry(out, st.retries, req) THEN TickBackoff(t) ELSE TickReset(t)

ConcInit ==
    /\ cReq \in [Procs ->
                   { Normalize([url |-> PlainUrl, referer |-> NoReferer,
                                retries |-> << r >>, responseType |-> "none",
                                responseCharset |-> NoCharset, method |-> << >>,
                                contentType |-> "", data |-> NoBody, proxy |-> x,
                                timeout |-> << >>]) :
                       r \in ConcRetries, x \in Proxies }]
    /\ cSt = [p \in Procs |-> NewAttempts]
    /\ cTick = [p \in Procs |-> NewTick]
    /\ cAgent = [p \in Procs |-> NoAgent]
    /\ proxyAgents = [u \in ProxyUrls |-> NoAgent]
    /\ agentsMade = [u \in ProxyUrls |-> 0]
    /\ DispatchIdle
    /\ DecodeIdle
    /\ NormalizeIdle

\* index.ts:134-153, 286-341: doRequest(arg) of dispatch p calls the handle;
\* makeRequest runs up to await Axios.request
ConcBegin(p, arg) ==
    /\ cSt' = [cSt EXCEPT ![p] = AttemptBegun(@, arg)]
    /\ proxyAgents' = AgentsAfter(proxyAgents, agentsMade, cReq[p].proxy)
    /\ agentsMade' = [u \in ProxyUrls |->
                         IF proxyAgents'[u] # proxyAgents[u]
                         THEN agentsMade[u] + 1 ELSE agentsMade[u]]
    /\ cAgent' = [cAgent EXCEPT ![p] = AgentUsed(proxyAgents, agentsMade, cReq[p].proxy)]

\* index.ts:209  the first doRequest() of dispatch p
ConcDispatch(p) ==
    /\ cSt[p].pc = "new"
    /\ ConcBegin(p, -1)
    /\ UNCHANGED << cReq, cTick >>
    /\ UNCHANGED << dispatchVars, decodeVars, normalizeVars >>

\* index.ts:155-201  the handle of dispatch p settles with out
ConcEnd(p, out) ==
    /\ cSt[p].pc = "inflight"
    /\ cSt' = [cSt EXCEPT ![p] = AttemptEnded(@, cTick[TickOwner(p)], cReq[p], out)]
    /\ cTick' = [cTick EXCEPT ![TickOwner(p)] = TickEnded(cSt[p], @, cReq[p], out)]
    /\ UNCHANGED << cReq, cAgent, proxyAgents, agentsMade >>
    /\ UNCHANGED << dispatchVars, decodeVars, normalizeVars >>

ConcAnswered(p) ==
    \E res \in ConcAnswers :
        ConcEnd(p, makeRequest(cReq[p], [kind |-> "res", res |-> res]))

ConcFails(p) ==
    \E text \in ConcFailures :
        ConcEnd(p, makeRequest(cReq[p], [kind |-> "err", text |-> text,
                                         isAxiosError |-> TRUE]))

\* index.ts:207  the timer of dispatch p fires
ConcTimerFires(p) ==
    /\ cSt[p].pc = "backoff"
    /\ cTick[TickOwner(p)].timer
    /\ cTick' = [cTick EXCEPT ![TickOwner(p)] = TickReady(@)]
    /\ ConcBegin(p, cTick[TickOwner(p)].backoffNumber)
    /\ UNCHANGED cReq
    /\ UNCHANGED << dispatchVars, decodeVars, normalizeVars >>

ConcNext ==
    \E p \in Procs :
        \/ ConcDispatch(p)
        \/ ConcFails(p)
        \/ ConcAnswered(p)
        \/ ConcTimerFires(p)

SpecConc == ConcInit /\ [][ConcNext]_vars

(* ------------------------------- claims -------------------------------- *)

\* request.retries as the dispatch reads it: 0 when the caller gave none
Budget == IF target.retries = << >> THEN 0 ELSE target.retries[1]

\* the last attempt has been evaluated: a backoff is pending or the promise
\* is settled
Evaluated == pc \in {"backoff", "resolved", "rejected"}

\* the error of the last attempt matches the hang-up pattern
ThrewHangUp ==
    /\ outcome.kind = "error"
    /\ outcome.message.text \cap {"socket hang up", "net::ERR_EMPTY_RESPONSE"} # {}

\* the error of the last attempt matches the unretryable pattern
ThrewUnretryable ==
    /\ outcome.kind = "error"
    /\ outcome.message.text \cap
         {"ERR_CONNECTION_REFUSED", "ECONNREFUSED", "econnrefused",
          "ERR_TOO_MANY_REDIRECTS", "Max redirects",
          "ERR_INTERNET_DISCONNECTED", "ENOTFOUND"} # {}

\* C1: after an attempt whose handle call returned a response, a retry is
\* scheduled iff the response is not ok, the attempt count is below
\* request.retries and the status is one of 408, 409, 425, 500, 502, 503,
\* 504; in every other case the response ends the dispatch (it resolves).
C1_RetryIffRetryableResponse ==
    (Evaluated /\ outcome.kind = "response") =>
        /\ (pc = "backoff") <=>
              (/\ ~outcome.ok
               /\ retries < Budget
               /\ outcome.status \in {408, 409, 425, 500, 502, 503, 504})
        /\ (pc # "backoff") => (pc = "resolved")

\* C1 witness: a retry scheduled after a 504 on the second attempt
C1_Witness ==
    pc = "backoff" /\ outcome.kind = "response" /\ outcome.status = 504 /\ retries = 1

\* C2 as stated: the number of handle calls is at most retries + 1, also
\* when retries is 0 or not given.
C2_AtMostRetriesPlusOne == calls <= Budget + 1

\* C2 as amended: the number of handle calls is at most max(retries, 1) + 1:
\* a hang-up on the first attempt is retried once whatever retries is.
C2_AtMostMaxRetriesOnePlusOne == calls <= Max(Budget, 1) + 1

\* C2 witness: two handle calls made for a request that gave no retries
C2_Witness == target.retries = << >> /\ calls = 2 /\ pc = "rejected"

\* C3: a handle call that throws an error matching the unretryable pattern
\* is never followed by another call: the dispatch rejects at once, for every
\* retries value, on every attempt, whatever else the description contains.
C3_UnretryableRejectsAtOnce ==
    (Evaluated /\ ThrewUnretryable) => pc = "rejected"

\* C4: hang-up errors cause at most one retry per dispatch, and a hang-up on
\* any attempt after the first is terminal even when retry budget remains.
C4_HangUpRetriedAtMostOnce ==
    /\ hangUpRetries <= 1
    /\ (Evaluated /\ ThrewHangUp /\ retries >= 1) => pc = "rejected"

\* C4 witness: a second hang-up ended a dispatch that had budget left
C4_Witness ==
    /\ pc = "rejected" /\ ThrewHangUp /\ retries = 1 /\ Budget >= 2
    /\ hangUpRetries = 1

\* C5: with status 425 on the first N-1 attempts and 200 on attempt N,
\* N <= retries + 1, every 425 is retried, the dispatch resolves with the 200
\* response after exactly N handle calls, and the backoff delays before
\* attempts 2..N are non-decreasing and at most 5000 ms.
C5_Retry425Then200 ==
    (Evaluated /\ only425 /\ outcome.kind = "response" /\ calls <= Budget + 1) =>
        /\ (outcome.status = 425 /\ calls <= Budget) => pc = "backoff"
        /\ (outcome.status = 200) =>
              /\ pc = "resolved"
              /\ settled.kind = "response" /\ settled.status = 200
              /\ Len(delays) = calls - 1
              /\ \A i \in DOMAIN delays : delays[i] <= 5000
              /\ \A i, j \in DOMAIN delays : i <= j => delays[i] <= delays[j]

\* C5 witness: 200 on the fifth attempt after four 425s, the last delay at
\* the ceiling
C5_Witness ==
    /\ pc = "resolved" /\ only425 /\ calls = 5 /\ settled.status = 200
    /\ delays = << 1000, 2000, 4000, 5000 >>

\* C6: the dispatch resolves with the response of its last attempt exactly
\* when that attempt returned a response (ok or not) and rejects exactly when
\* it threw; a settled promise never holds a default in place of a response.
C6_ResolvesWithResponseOrRejects ==
    /\ (pc = "resolved") <=> (settled.kind = "response")
    /\ (pc = "rejected") <=> (settled.kind = "error")
    /\ (pc = "resolved") =>
          /\ outcome.kind = "response"
          /\ settled.status = outcome.status
          /\ settled.type = outcome.type
          /\ settled.data = outcome.data
    /\ (pc = "rejected") => outcome.kind = "error"

\* C6 witness: a 503 is the result once the retry budget is spent
C6_Witness ==
    /\ pc = "resolved" /\ settled.status = 503 /\ ~outcome.ok
    /\ Budget >= 1 /\ retries = Budget

\* C7: a decode or parse failure of a forced responseType text or json is
\* surfaced after that handle call and no retry is scheduled, for every
\* retries value.
C7_DecodeErrorNotRetried ==
    (/\ Evaluated
     /\ target.responseType \in {"text", "json"}
     /\ outcome.kind = "error" /\ outcome.name = "TypeError") => pc = "rejected"

\* C8: every error the dispatch rejects with carries the final request (url as
\* resolved for the last attempt) and the last response received during the
\* dispatch, null (0) only if none was ever received.
C8_RejectionCarriesLastResponse ==
    (pc = "rejected") =>
        /\ settled.request = request
        /\ settled.response = lastStatus

\* C9 as stated: whenever the dispatch ends on an error matching the hang-up
\* pattern, the rejected message is "net::ERR_EMPTY_RESPONSE at <url>", for
\* every error object the handle may throw.
C9_HangUpMessageCanonical ==
    (pc = "rejected" /\ ThrewHangUp) =>
        settled.message = [text |-> {"net::ERR_EMPTY_RESPONSE"}, at |-> request.url,
                 quoted |-> << >>]

\* C9 as amended: the message is rewritten to the canonical one when the
\* error carries the isAxiosError flag; without the flag the error keeps the
\* message it was thrown with.
C9_HangUpMessageCanonicalForAxios ==
    (pc = "rejected" /\ ThrewHangUp) =>
        IF outcome.isAxiosError
        THEN settled.message =
                [text |-> {"net::ERR_EMPTY_RESPONSE"}, at |-> request.url,
                 quoted |-> << >>]
        ELSE settled.message = outcome.message

\* C9 witness: an Axios hang-up ended the dispatch of a magic URL
C9_Witness ==
    /\ pc = "rejected" /\ ThrewHangUp /\ outcome.isAxiosError
    /\ magicVars /\ target.url = MagicUrl
    /\ settled.message.at = handed[Len(handed)].url

\* C10: with magic variables on, the url and referer handed to every handle
\* call are the original templates (the url and referer of the request as
\* dispatch normalized it, index.ts:132-133) resolved at that call's time, the
\* templates keep their placeholders, and no value resolved for an earlier
\* attempt is handed again; with magic variables off they are the same on
\* every attempt.
C10_MagicVarsFreshPerAttempt ==
    /\ (pc # "new") => (url = Normalize(target).url /\ referer = target.referer)
    /\ \A i \in DOMAIN handed :
          IF magicVars
          THEN /\ handed[i].url = resolveMagicVars(Normalize(target).url, times[i])
               /\ handed[i].referer = resolveMagicVars(target.referer, times[i])
               /\ ~HasPlaceholder(handed[i].url)
               /\ ~HasPlaceholder(handed[i].referer)
          ELSE /\ handed[i].url = Normalize(target).url
               /\ handed[i].referer = target.referer
    /\ \A i, j \in DOMAIN handed :
          (magicVars /\ i < j) =>
              /\ HasPlaceholder(target.url) => handed[i].url # handed[j].url
              /\ HasPlaceholder(target.referer) =>
                    handed[i].referer # handed[j].referer

\* C10 witness: the third attempt of a request with a magic url and referer
C10_Witness ==
    /\ magicVars /\ Len(handed) = 3
    /\ target.url = MagicUrl /\ target.referer = MagicReferer
    /\ pc = "inflight"

\* C11: at every moment of a dispatch at most one handle call is in flight,
\* and none is in flight while a backoff timer of the dispatch is pending.
C11_AttemptsSequential ==
    /\ inflight <= 1
    /\ ~(inflight > 0 /\ tick.timer)
    /\ (pc = "inflight") <=> (inflight = 1)
    /\ (pc = "backoff") <=> tick.timer

\* C11 witness: the timer before the third attempt is pending, nothing is in
\* flight
C11_Witness == tick.timer /\ inflight = 0 /\ calls = 2

C20_OtherErrorsFollowBudget ==
    (Evaluated /\ outcome.kind = "error" /\ ~ThrewHangUp /\ ~ThrewUnretryable) =>
        /\ (pc = "backoff") <=> (retries < Budget)
        /\ (pc # "backoff") =>
              /\ pc = "rejected"
              /\ settled.kind = "error"
              /\ settled.name = outcome.name
              /\ settled.message = outcome.message

\* C20 witness: a timeout on the third attempt of a request with retries 2
C20_Witness ==
    /\ pc = "rejected" /\ outcome.message.text = {"ETIMEDOUT"}
    /\ Budget = 2 /\ retries = 2

(* ----------------------- claims about the decoder ---------------------- *)

Resolved == dOut.kind # "none"
Forced == dReq.responseType \in {"text", "json"}
Auto == dReq.responseType = "none"
IsRaw ==
    /\ dOut.kind = "response" /\ dOut.type = "buffer"
    /\ dOut.data.shape = "bytes" /\ dOut.data.content = dRes.body
IsEmptyText ==
    /\ dOut.kind = "response" /\ dOut.type = "text"
    /\ dOut.data.shape = "string" /\ dOut.data.content = << >>
\* the first charset given, of the request's, the header's and the detected
FirstCharset ==
    IF dReq.responseCharset # "" THEN dReq.responseCharset
    ELSE IF dRes.charset # "" THEN dRes.charset ELSE dRes.body.detect
ParseFails ==
    \/ dRes.type = "json" /\ dRes.body.syntax # "json"
    \/ dRes.type = "xml" /\ dRes.body.syntax # "xml"

\* C15: a body of byte length zero, with a responseType that is not buffer or
\* stream, resolves to data "" of type "text" in forced and in auto mode; no
\* parse is attempted and no error is raised.
C15_EmptyBodyIsEmptyText ==
    (Resolved /\ dRes.body.byteLength = 0 /\ (Forced \/ Auto)) => IsEmptyText

C17_PreviewAtMost32 ==
    (/\ Resolved /\ dReq.responseType = "json"
     /\ dRes.body.byteLength > 0 /\ FirstCharset \in KnownCharsets
     /\ dRes.body.syntax # (IF dRes.type = "xml" THEN "xml" ELSE "json")) =>
        /\ dOut.kind = "error"
        /\ Len(dOut.message.quoted) <= 32
        /\ dOut.message.quoted =
              IF dRes.body.byteLength <= 32
              THEN Text(dRes.body.byteLength)
              ELSE SubSeq(Text(dRes.body.byteLength), 1, 29) \o << 0, 0, 0 >>

\* C17 witness: a text of 33 characters is quoted as 32
C17_Witness ==
    /\ dOut.kind = "error" /\ dReq.responseType = "json"
    /\ dRes.body.byteLength = 33 /\ Len(dOut.message.quoted) = 32

\* C18: every response of makeRequest has a type among buffer, text, json and
\* stream, and data of that type: the raw bytes, the decoded string, the
\* parsed value, the stream; a forced buffer gives the raw bytes whatever the
\* content type, a forced text gives a decoded string whatever the content.
C18_DataMatchesType ==
    /\ (Resolved /\ dReq.responseType = "buffer") => IsRaw
    /\ (dOut.kind = "response") =>
        /\ dOut.type \in {"buffer", "text", "json", "stream"}
        /\ dOut.type = "buffer" => IsRaw
        /\ dOut.type = "text" =>
              /\ dOut.data.shape = "string"
              /\ dOut.data.content = Text(dRes.body.byteLength)
        /\ dOut.type = "json" =>
              /\ dOut.data.shape = "value"
              /\ dOut.data.by = (IF dRes.type = "xml" THEN "parseXML" ELSE "JSON.parse")
              /\ dOut.data.content = Text(dRes.body.byteLength)
        /\ dOut.type = "stream" =>
              (dOut.data.shape = "stream" /\ dOut.data.content = dRes.body)
        /\ dReq.responseType = "text" => dOut.type = "text"
        /\ dReq.responseType = "stream" => dOut.type = "stream"

\* C18 witness: a forced text of an image is a string
C18_Witness ==
    /\ dOut.kind = "response" /\ dReq.responseType = "text"
    /\ dRes.prefix = "image" /\ dRes.body.byteLength > 0
    /\ dOut.type = "text" /\ dOut.data.shape = "string"

(* -------------------- claims about the normalization ------------------- *)

GetOrHead == nTarget.method \in { << >>, << "GET" >>, << "HEAD" >> }
\* the characters of the handed URL after the URL passed and one joiner
Appended ==
    [i \in 1..(Len(nReq.url) - Len(nTarget.url) - 1) |->
        nReq.url[Len(nTarget.url) + 1 + i].s]
JoinedOn ==
    /\ Len(nReq.url) > Len(nTarget.url)
    /\ SubSeq(nReq.url, 1, Len(nTarget.url)) = nTarget.url
    /\ nReq.url[Len(nTarget.url) + 1].s =
          (IF \E i \in DOMAIN nTarget.url : nTarget.url[i].s = "?" THEN "&" ELSE "?")
\* s without its leading "?" and "&"
IsStripped(s, t) ==
    /\ Len(t) <= Len(s)
    /\ t = SubSeq(s, Len(s) - Len(t) + 1, Len(s))
    /\ \A i \in 1..(Len(s) - Len(t)) : s[i] \in {"?", "&"}
    /\ t # << >> => t[1] \notin {"?", "&"}
\* the pairs of an object as a query string can carry them
AsWritten(o) ==
    LET Written(p) == p.v.t # "undefined"
        kept == SelectSeq(o, Written)
    IN  [i \in DOMAIN kept |-> [k |-> kept[i].k, v |-> [t |-> "string", s |-> kept[i].v.s]]]

\* C19: for a GET or HEAD with an object body the serialized body is appended
\* to the URL, joined with "&" when the URL has a "?" and with "?" otherwise,
\* the body is null at the first transport call, and decoding what was
\* appended gives the object's key/value pairs; a string body is appended the
\* same way once its leading "?" and "&" are stripped.
C19_BodyMovesIntoQuery ==
    (nDone /\ GetOrHead) =>
        /\ nTarget.data.t = "object" =>
              /\ JoinedOn
              /\ nReq.data.t = "null"
              /\ QsParse(Appended) = nTarget.data.o
        /\ nTarget.data.t = "string" =>
              /\ JoinedOn
              /\ nReq.data.t = "null"
              /\ IsStripped(nTarget.data.s, Appended)

\* C19 as amended: the pairs come back as the query string carries them, each
\* value the string written for it and an undefined one left out; an empty
\* string body leaves the request as it was.
C19_BodyMovesIntoQueryAsStrings ==
    (nDone /\ GetOrHead) =>
        /\ nTarget.data.t = "object" =>
              /\ JoinedOn
              /\ nReq.data.t = "null"
              /\ QsParse(Appended) = AsWritten(nTarget.data.o)
        /\ (nTarget.data.t = "string" /\ nTarget.data.s # << >>) =>
              /\ JoinedOn
              /\ nReq.data.t = "null"
              /\ IsStripped(nTarget.data.s, Appended)
        /\ (nTarget.data.t = "string" /\ nTarget.data.s = << >>) =>
              /\ nReq.url = nTarget.url
              /\ nReq.data = nTarget.data

\* C19 witness: an object with a number and a string holding "&", on a URL
\* that has a query already
C19_Witness ==
    /\ nDone /\ nTarget.method = << "HEAD" >> /\ nTarget.data.t = "object"
    /\ Len(nTarget.data.o) = 2
    /\ nTarget.data.o[1].v.t = "number"
    /\ nTarget.data.o[2].v = [t |-> "string", s |-> << "x", "&" >>]
    /\ Len(nTarget.url) > 1
    /\ nReq.url[Len(nTarget.url) + 1].s = "&"

(* ----------------- claims about dispatches side by side ---------------- *)

\* a dispatch that runs alone: its attempt state after the outcomes outs of
\* its handle calls
RECURSIVE AloneAfter(_, _, _, _)
AloneAfter(st, t, req, outs) ==
    IF outs = << >> THEN st
    ELSE LET ended == AttemptEnded(st, t, req, Head(outs))
             tk == TickEnded(st, t, req, Head(outs))
         IN  IF ended.pc = "backoff"
             THEN AloneAfter(AttemptBegun(ended, tk.backoffNumber), TickReady(tk),
                             req, Tail(outs))
             ELSE ended
Alone(req, outs) == AloneAfter(AttemptBegun(NewAttempts, -1), NewTick, req, outs)

RECURSIVE Pow2(_)
Pow2(n) == IF n = 0 THEN 1 ELSE 2 * Pow2(n - 1)

Begun(p) == cSt[p].pc # "new"
Over(at) == at \in {"resolved", "rejected"}

\* C12: however two or more dispatches interleave, the attempt counter, the
\* backoff delays, the retry decisions and the final outcome of each are
\* those of the same dispatch run alone against the same transport outcomes.
C12_DispatchesDoNotInterfere ==
    \A p \in Procs :
        Begun(p) =>
            /\ LET alone == Alone(cReq[p], cSt[p].outs)
               IN  /\ cSt[p].counters = alone.counters
                   /\ cSt[p].decisions = alone.decisions
                   /\ cSt[p].delays = alone.delays
                   /\ cSt[p].settled = alone.settled
                   /\ Over(cSt[p].pc) <=> Over(alone.pc)
            /\ \A i \in DOMAIN cSt[p].counters : cSt[p].counters[i] = i - 1
            /\ \A i \in DOMAIN cSt[p].delays :
                  cSt[p].delays[i] = Min(1000 * Pow2(i - 1), 5000)

\* C12 witness: one dispatch waits for its first retry after another has
\* retried and settled
C12_Witness ==
    /\ cSt[1].pc = "backoff" /\ Len(cSt[1].outs) = 1 /\ cSt[1].delays = << 1000 >>
    /\ cSt[2].pc = "resolved" /\ Len(cSt[2].outs) = 2 /\ cSt[2].delays = << 1000 >>

\* C13: however requests through one Fetcher that name the same proxy
\* interleave, concurrent first use included, at most one agent is ever
\* created for the proxy URL and every one of the requests uses it.
C13_OneAgentPerProxyUrl ==
    /\ \A u \in ProxyUrls : agentsMade[u] <= 1
    /\ \A p \in Procs :
          (Begun(p) /\ cReq[p].proxy # NoProxy) =>
              /\ cAgent[p] # NoAgent
              /\ cAgent[p] = proxyAgents[ProxyUrl(cReq[p].proxy)]
              /\ \A q \in Procs :
                    (Begun(q) /\ cReq[q].proxy # NoProxy
                     /\ ProxyUrl(cReq[q].proxy) = ProxyUrl(cReq[p].proxy)) =>
                        cAgent[q] = cAgent[p]

\* C13 witness: the first handle calls of two dispatches that name the same
\* proxy are in flight together
C13_Witness ==
    /\ cReq[1].proxy # NoProxy /\ cReq[2].proxy = cReq[1].proxy
    /\ cSt[1].pc = "inflight" /\ cSt[1].outs = << >>
    /\ cSt[2].pc = "inflight" /\ cSt[2].outs = << >>
    /\ agentsMade[ProxyUrl(cReq[1].proxy)] = 1
    /\ cAgent[1] = cAgent[2]

(* -------------------- further claims about one dispatch ---------------- *)

\* C21: the delay before the k-th retry of a dispatch is
\* min(1000 * 2^(k-1), 5000) ms; the handle call of that retry starts only
\* after the timer of that delay has fired, and no retry starts without a
\* backoff before it.
C21_BackoffBeforeEveryRetry ==
    /\ \A k \in DOMAIN delays : delays[k] = Min(1000 * Pow2(k - 1), 5000)
    /\ calls = Len(times)
    /\ calls > 0 => Len(delays) = (IF pc = "backoff" THEN calls ELSE calls - 1)
    /\ \A k \in 1..(calls - 1) : times[k + 1] >= times[k] + delays[k]
    /\ pc = "backoff" => (tick.timer /\ tick.backoffDelay = delays[Len(delays)])

\* C21 witness: the fifth call starts 5000 ms after the fourth, 12000 ms
\* after the first
C21_Witness ==
    /\ calls = 5 /\ pc = "inflight"
    /\ delays = << 1000, 2000, 4000, 5000 >>
    /\ times[5] - times[4] = 5000 /\ times[5] - times[1] = 12000

\* C23: the promise of a dispatch is settled exactly once, by resolve or by
\* reject; once it is settled no handle call follows and no backoff timer of
\* the dispatch is pending.
C23_SettledExactlyOnce ==
    /\ settlements <= 1
    /\ (settlements = 1) <=> (pc \in {"resolved", "rejected"})
    /\ (settlements = 0) => settled = NoSettled
    /\ (settlements >= 1) =>
          /\ (pc = "resolved") <=> (settled.kind = "response")
          /\ (pc = "rejected") <=> (settled.kind = "error")
          /\ calls = settledAt
          /\ inflight = 0
          /\ ~tick.timer

\* C23 witness: a dispatch that settled by reject after three handle calls
C23_Witness ==
    /\ settlements = 1 /\ pc = "rejected" /\ settled.kind = "error"
    /\ calls = 3 /\ settledAt = 3 /\ ~tick.timer

\* C24: when every handle call returns or throws and every backoff timer
\* fires, the dispatch settles in the end, after at most max(retries, 1) + 1
\* handle calls, whatever the outcomes of the attempts are.
C24_EventuallySettles ==
    <>(settlements = 1 /\ calls <= Max(Budget, 1) + 1)

\* C24 witness: a dispatch with retries 4 that resolves at its fifth call
C24_Witness ==
    /\ Budget = 4 /\ pc = "resolved" /\ calls = 5 /\ settlements = 1

\* C22: fetch leaves the object the caller passed unchanged: at every point
\* of the dispatch, and so after it settled, the caller's url, headers, data,
\* timeout and retries hold the values they were passed with, whatever the
\* dispatch wrote into the request of its attempts
C22_CallerRequestUnchanged ==
    /\ caller.url = target.url
    /\ caller.headers = [referer |-> target.referer, filled |-> FALSE]
    /\ caller.data = target.data
    /\ caller.timeout = target.timeout
    /\ caller.retries = target.retries

C22_Witness ==
    /\ pc = "resolved"
    /\ calls = 3
    /\ magicVars
    /\ target.data.t = "object"
    /\ request.data = NoBody
    /\ request.url # target.url
    /\ Includes(request.url, Lit("a"))
    /\ handed[2].url # handed[3].url
    /\ request.referer # target.referer
    /\ request.timeout = 30000
    /\ caller = CallerOf(target)

(* ------------------- further claims about the agent cache -------------- *)

\* two proxies the cache keeps under one key: the same scheme, host and port
SameKey(x, y) ==
    /\ x # NoProxy
    /\ y # NoProxy
    /\ (x.protocol = "https:") = (y.protocol = "https:")
    /\ x.host = y.host
    /\ x.port = y.port

\* C25: the agent cache only grows: a step never replaces or removes an
\* agent it holds, and two dispatches whose proxies have the same scheme,
\* host and port use the one agent that was created first under that key,
\* whatever credentials either of them carries
C25_AgentCacheOnlyGrows ==
    [][ /\ \A u \in ProxyUrls :
               proxyAgents[u] # NoAgent => proxyAgents'[u] = proxyAgents[u]
        /\ \A p \in Procs, q \in Procs :
               (/\ SameKey(cReq'[p].proxy, cReq'[q].proxy)
                /\ cAgent'[p] # NoAgent
                /\ cAgent'[q] # NoAgent)
               => /\ cAgent'[p] = cAgent'[q]
                  /\ cAgent'[p].serial = 1 ]_vars

C25_Witness ==
    /\ cReq[1].proxy.auth = ""
    /\ cReq[2].proxy.auth = "user:pw"
    /\ SameKey(cReq[1].proxy, cReq[2].proxy)
    /\ cAgent[1] = cAgent[2]
    /\ cAgent[1].auth = "user:pw"
    /\ cSt[1].pc = "inflight"
    /\ Len(cSt[1].outs) = 1
    /\ \E u \in ProxyUrls : proxyAgents[u] = cAgent[1] /\ agentsMade[u] = 1

=============================================================================
